---- MODULE Spec2Model ----
(***************************************************************************)
(* Model of src/src/lib.rs: the snippet extractor (parse_snippet) and the  *)
(* suggestion collector (collect_span, collect_suggestions).               *)
(*                                                                         *)
(* A Rust String is modelled as a sequence of characters; every character  *)
(* has a UTF-8 width, and string slices are taken at BYTE offsets as       *)
(* `&s[a..b]` does, while `chars().count()` counts CHARACTERS.  A panic    *)
(* (failed `expect`, usize underflow, slice index out of range or not on a *)
(* character boundary) is the value Panic(reason); it propagates to the    *)
(* caller as unwinding does.                                               *)
(***************************************************************************)
EXTENDS Integers, Sequences, FiniteSets

VARIABLES
    message,      \* parse_snippet's `message: Option<String>` argument
    span,         \* parse_snippet's `span: &DiagnosticSpan` argument
    diagnostic,   \* collect_suggestions' `diagnostic: &Diagnostic` argument
    pc,           \* "call": the function is about to run; "done": it has ended
    indent,       \* parse_snippet's local `indent` (NoIndent until computed)
    result        \* what the call produced: a value or a Panic

vars == <<message, span, diagnostic, pc, indent, result>>

-----------------------------------------------------------------------------
(* Bounds of the checked input space.                                      *)

\* longest line text (in characters) of an enumerated single-line span
MaxLen == 4
\* most line records of an enumerated multi-line span
MaxLines == 3
\* most characters, over all its lines together, of an enumerated multi-line span
MaxTotalLen == 4
\* largest size of an enumerated diagnostic: its spans and children, and theirs
MaxSize == 4

-----------------------------------------------------------------------------
(* Option<T>, panics, strings.                                             *)

None == [kind |-> "None"]
Some(v) == [kind |-> "Some", val |-> v]

Panic(reason) == [kind |-> "panic", reason |-> reason]
IsPanic(v) == v.kind = "panic"

\* the ASCII white space the inputs are built from
AsciiWhitespace == {" ", "\n", "\t"}

\* U+00A0 NO-BREAK SPACE: White_Space, two bytes in UTF-8
NBSP == "U+00A0"

\* char::is_whitespace, on the characters the inputs are built from
is_whitespace(c) == c \in AsciiWhitespace \cup {NBSP}

\* char::len_utf8, on the characters the inputs are built from
len_utf8(c) == IF c = NBSP THEN 2 ELSE 1

\* str::len: the length in bytes
RECURSIVE len(_)
len(s) == IF s = <<>> THEN 0 ELSE len_utf8(Head(s)) + len(Tail(s))

\* the byte offset at which character number k+1 of s starts (k in 0..Len(s))
byte_offset(s, k) == len(SubSeq(s, 1, k))

\* str::is_char_boundary
is_char_boundary(s, b) == \E k \in 0..Len(s) : byte_offset(s, k) = b

\* the number of characters of s that lie before byte offset b (a boundary)
char_index(s, b) == CHOOSE k \in 0..Len(s) : byte_offset(s, k) = b

\* whether `&s[a..b]` is in range; otherwise the indexing panics
slice_ok(s, a, b) ==
    /\ a <= b
    /\ b <= len(s)
    /\ is_char_boundary(s, a)
    /\ is_char_boundary(s, b)

\* `&s[a..b]` where slice_ok(s, a, b)
slice(s, a, b) == SubSeq(s, char_index(s, a) + 1, char_index(s, b))

\* `.chars().take_while(|&c| char::is_whitespace(c)).count()`
RECURSIVE leading_whitespace(_)
leading_whitespace(s) ==
    IF s = <<>> \/ ~is_whitespace(Head(s)) THEN 0
    ELSE 1 + leading_whitespace(Tail(s))

Min(a, b) == IF a <= b THEN a ELSE b

\* Iterator::min over a non-empty set of numbers
SetMin(S) == CHOOSE m \in S : \A n \in S : m <= n

-----------------------------------------------------------------------------
(* parse_snippet                                                           *)

\* the closure mapped over span.text: one line's indent, capped
line_indent(line) == Min(leading_whitespace(line.text), line.highlight_start)

\* `span.text.iter().map(..).min()`: None on an empty text
uniform_indent(sp) ==
    IF sp.text = <<>> THEN None
    ELSE Some(SetMin({line_indent(sp.text[i]) : i \in 1..Len(sp.text)}))

NoIndent == -1

\* the value the local `indent` takes in a call (NoIndent: `expect` panicked)
indent_of(sp) ==
    IF uniform_indent(sp) = None THEN NoIndent ELSE uniform_indent(sp).val

\* the panic of `.expect("text to replace is empty")`
ExpectFailed == Panic("text to replace is empty")

\* The panic of a slice index that is out of range or off a character boundary,
\* and of `x - 1` on a usize that is 0.  (The subtraction panics in a debug
\* build; a release build wraps to usize::MAX, which is past the end of every
\* string, so the slice using it panics: the call aborts in both builds.)
RangePanic == Panic("index out of range or arithmetic overflow")

first_line(sp) == sp.text[1]
last_line(sp) == sp.text[Len(sp.text)]

\* start_of, had the 1-based column been used as an offset unconverted
start_unconverted(sp) == first_line(sp).highlight_start

\* the locals `start` and `end`: the first line's 1-based columns, 0-based
start_of(sp) == first_line(sp).highlight_start - 1
end_of(sp) == first_line(sp).highlight_end - 1

\* the offset on the last line at which body ends and tail begins
tail_start(sp) == last_line(sp).highlight_end - 1

\* the lines `span.text.iter().take(span.text.len() - 1).skip(1)` visits
interior(sp) == 2..(Len(sp.text) - 1)

\* lead_of, had the indent not been stripped from the first line
lead_with_indent(sp, ind) == slice(first_line(sp).text, 0, start_of(sp))

\* `span.text[0].text[indent..start].to_string()`
lead_of(sp, ind) == slice(first_line(sp).text, ind, start_of(sp))

\* interior_body, had the interior lines been pushed without unindenting
RECURSIVE interior_body_raw(_, _, _)
interior_body_raw(sp, ind, i) ==
    IF i > Len(sp.text) - 1 THEN <<>>
    ELSE <<"\n">> \o sp.text[i].text \o interior_body_raw(sp, ind, i + 1)

\* body.push('\n'); body.push_str(&line.text[indent..]) for the interior lines
\* from line i on, in order
RECURSIVE interior_body(_, _, _)
interior_body(sp, ind, i) ==
    IF i > Len(sp.text) - 1 THEN <<>>
    ELSE <<"\n">> \o slice(sp.text[i].text, ind, len(sp.text[i].text))
             \o interior_body(sp, ind, i + 1)

\* `body`: the first line's highlighted part, the interior lines, and on a
\* span of several lines the last line up to its highlight_end
body_of(sp, ind) ==
    slice(first_line(sp).text, start_of(sp), end_of(sp))
        \o interior_body(sp, ind, 2)
        \o (IF Len(sp.text) > 1
            THEN <<"\n">> \o slice(last_line(sp).text, ind, tail_start(sp))
            ELSE <<>>)

\* `tail`: the rest of the last line
tail_of(sp) == slice(last_line(sp).text, tail_start(sp), len(last_line(sp).text))

LinePosition(line, column) == [line |-> line, column |-> column]
LineRange(start, end) == [start |-> start, end |-> end]

Snippet(msg, sp, lead, body, tail) ==
    [kind        |-> "Snippet",
     sub_message |-> msg,
     file_name   |-> sp.file_name,
     line_range  |-> LineRange(LinePosition(sp.line_start, sp.column_start),
                               LinePosition(sp.line_end, sp.column_end)),
     text        |-> <<lead, body, tail>>]

\* parse_snippet after `indent` is known, in the order the statements run
split_lines(msg, sp, ind) ==
    IF first_line(sp).highlight_start = 0 \/ first_line(sp).highlight_end = 0
    THEN RangePanic
    ELSE IF \/ ~slice_ok(first_line(sp).text, ind, start_of(sp))
            \/ ~slice_ok(first_line(sp).text, start_of(sp), end_of(sp))
    THEN RangePanic
    ELSE IF \E i \in interior(sp) :
                ~slice_ok(sp.text[i].text, ind, len(sp.text[i].text))
    THEN RangePanic
    ELSE IF last_line(sp).highlight_end = 0
    THEN RangePanic
    ELSE IF Len(sp.text) > 1 /\ ~slice_ok(last_line(sp).text, ind, tail_start(sp))
    THEN RangePanic
    ELSE IF ~slice_ok(last_line(sp).text, tail_start(sp), len(last_line(sp).text))
    THEN RangePanic
    ELSE Snippet(msg, sp, lead_of(sp, ind), body_of(sp, ind), tail_of(sp))

\* parse_snippet, had an empty text yielded an empty snippet instead of a panic
parse_snippet_lenient(msg, sp) ==
    IF uniform_indent(sp) = None THEN Snippet(msg, sp, <<>>, <<>>, <<>>)
    ELSE split_lines(msg, sp, uniform_indent(sp).val)

parse_snippet(msg, sp) ==
    IF uniform_indent(sp) = None THEN ExpectFailed
    ELSE split_lines(msg, sp, uniform_indent(sp).val)

-----------------------------------------------------------------------------
(* Inputs of parse_snippet.                                                *)

DiagnosticSpanLine(text, hs, he) ==
    [text |-> text, highlight_start |-> hs, highlight_end |-> he]

DiagnosticSpan(file, ls, cs, le, ce, repl, text) ==
    [file_name |-> file, line_start |-> ls, column_start |-> cs,
     line_end |-> le, column_end |-> ce,
     suggested_replacement |-> repl, text |-> text]

\* all strings over alphabet A of at most n characters
StringsUpTo(A, n) == UNION {[1..k -> A] : k \in 0..n}

\* the characters of single-line inputs, and of multi-line inputs
Chars == {" ", "x", "\n", NBSP}
MultiChars == {" ", "x"}

\* a span over the given line records (the position fields follow the records)
SpanOver(text) ==
    DiagnosticSpan("src/main.rs", 7,
                   IF text = <<>> THEN 1 ELSE text[1].highlight_start,
                   7 + (IF text = <<>> THEN 0 ELSE Len(text) - 1),
                   IF text = <<>> THEN 1 ELSE text[Len(text)].highlight_end,
                   None, text)

\* one line record, every column from 0 to one past the end-of-line column
SingleLines ==
    UNION {[text : {t}, highlight_start : 0..(len(t) + 2),
            highlight_end : 0..(len(t) + 2)] : t \in StringsUpTo(Chars, MaxLen)}

\* the first or the last record of a multi-line span: at most b characters,
\* in-range 1-based columns
EndLines(b) ==
    UNION {[text : {t}, highlight_start : 1..(len(t) + 1),
            highlight_end : 1..(len(t) + 1)] : t \in StringsUpTo(MultiChars, b)}

\* an interior record: its highlight_end, which the code never reads, is the
\* end-of-line column
InteriorLines(b) ==
    UNION {[text : {t}, highlight_start : 1..(len(t) + 1),
            highlight_end : {len(t) + 1}] : t \in StringsUpTo(MultiChars, b)}

\* the runs of at most k interior records holding at most b characters together
RECURSIVE InteriorSeqs(_, _)
InteriorSeqs(k, b) ==
    IF k = 0 THEN {<<>>}
    ELSE {<<>>} \cup UNION {{<<l>> \o rest :
                                rest \in InteriorSeqs(k - 1, b - Len(l.text))} :
                            l \in InteriorLines(b)}

InteriorRuns == [b \in 0..MaxTotalLen |-> InteriorSeqs(MaxLines - 2, b)]

\* the line of the specification's example: `    let x = 1;`, highlighting `x`
ExampleLine ==
    DiagnosticSpanLine(<<" ", " ", " ", " ", "l", "e", "t", " ", "x", " ", "=",
                         " ", "1", ";">>, 9, 10)

\* a three-line span of an indented block, as rustc reports one
ExampleBlock ==
    << DiagnosticSpanLine(<<" ", " ", "i", "f", " ", "a", " ", "{">>, 6, 9),
       DiagnosticSpanLine(<<" ", " ", " ", " ", "b", ";">>, 1, 7),
       DiagnosticSpanLine(<<" ", " ", "}", ";">>, 1, 4) >>

\* a two-line span one of whose line records holds a line break itself
ExampleBrokenLine ==
    << DiagnosticSpanLine(<<"a", "\n", "b">>, 1, 4),
       DiagnosticSpanLine(<<"c", "d">>, 1, 2) >>

\* the empty text, the single-line texts and the examples
SmallSpanTexts ==
    {<<>>} \cup {<<l>> : l \in SingleLines}
           \cup {<<ExampleLine>>, ExampleBlock, ExampleBrokenLine}

MessageInputs == {None, Some("try this")}

-----------------------------------------------------------------------------
(* The specification of a call of parse_snippet.                           *)

NoDiagnostic == [message |-> "", spans |-> <<>>, children |-> <<>>]
NoSpan == SpanOver(<<>>)
NoResult == [kind |-> "pending"]

InitSnippet ==
    /\ message \in MessageInputs
    /\ \/ \E text \in SmallSpanTexts : span = SpanOver(text)
       \/ \E first \in EndLines(MaxTotalLen) :
          \E last \in EndLines(MaxTotalLen - Len(first.text)) :
          \E mid \in InteriorRuns[MaxTotalLen - Len(first.text) - Len(last.text)] :
             span = SpanOver(<<first>> \o mid \o <<last>>)
    /\ diagnostic = NoDiagnostic
    /\ pc = "call"
    /\ indent = NoIndent
    /\ result = NoResult

ParseSnippet ==
    /\ pc = "call"
    /\ indent' = indent_of(span)
    /\ result' = parse_snippet(message, span)
    /\ pc' = "done"
    /\ UNCHANGED <<message, span, diagnostic>>

NextSnippet == ParseSnippet

SpecSnippet == InitSnippet /\ [][NextSnippet]_vars

-----------------------------------------------------------------------------
(* collect_span, collect_suggestions                                       *)

Replacement(snippet, replacement) ==
    [snippet |-> snippet, replacement |-> replacement]

Suggestion(msg, snippets, replacements) ==
    [kind |-> "Suggestion", message |-> msg,
     snippets |-> snippets, replacements |-> replacements]

\* collect_span, had the snippet been built before the replacement is looked at
collect_span_eager(msg, sp) ==
    LET snippet == parse_snippet(msg, sp)
    IN  IF IsPanic(snippet) THEN snippet
        ELSE IF sp.suggested_replacement = None THEN None
        ELSE Some(Replacement(snippet, sp.suggested_replacement.val))

\* Option::map runs the closure, and so parse_snippet, only on Some(replacement)
collect_span(msg, sp) ==
    IF sp.suggested_replacement = None THEN None
    ELSE LET snippet == parse_snippet(msg, sp)
         IN  IF IsPanic(snippet) THEN snippet
             ELSE Some(Replacement(snippet, sp.suggested_replacement.val))

\* context_snippets, had the diagnostic's message been passed as the annotation
context_snippets_annotated(d) ==
    [i \in 1..Len(d.spans) |-> parse_snippet(Some(d.message), d.spans[i])]

\* `diagnostic.spans.iter().map(|span| parse_snippet(None, span))`
context_snippets(d) == [i \in 1..Len(d.spans) |-> parse_snippet(None, d.spans[i])]

\* collect_child, had the spans of a child been visited last to first
RECURSIVE collect_child_reversed(_, _)
collect_child_reversed(child, j) ==
    IF j > Len(child.spans) THEN <<>>
    ELSE collect_child_reversed(child, j + 1)
             \o <<collect_span(Some(child.message), child.spans[j])>>

\* the inner loop: collect_span on the spans of one child from span j on
RECURSIVE collect_child(_, _)
collect_child(child, j) ==
    IF j > Len(child.spans) THEN <<>>
    ELSE <<collect_span(Some(child.message), child.spans[j])>>
             \o collect_child(child, j + 1)

\* the outer loop: the children from child i on, in order
RECURSIVE collect_children(_, _)
collect_children(d, i) ==
    IF i > Len(d.children) THEN <<>>
    ELSE collect_child(d.children[i], 1) \o collect_children(d, i + 1)

IsSome(v) == v.kind = "Some"

\* the values `replacements.push(sugg)` appended, in order
pushed(collected) ==
    LET kept == SelectSeq(collected, IsSome)
    IN  [i \in 1..Len(kept) |-> kept[i].val]

\* the first panic among a sequence of outcomes: where the unwinding starts
first_panic(outcomes) ==
    outcomes[CHOOSE i \in 1..Len(outcomes) :
                /\ IsPanic(outcomes[i])
                /\ \A j \in 1..(i - 1) : ~IsPanic(outcomes[j])]

has_panic(outcomes) == \E i \in 1..Len(outcomes) : IsPanic(outcomes[i])

\* suggestion_or_none, had the emptiness test been made on `snippets`
suggestion_if_snippets(msg, snippets, replacements) ==
    IF snippets = <<>> THEN None
    ELSE Some(Suggestion(msg, snippets, replacements))

\* `if replacements.is_empty() { None } else { Some(Suggestion { .. }) }`
suggestion_or_none(msg, snippets, replacements) ==
    IF replacements = <<>> THEN None
    ELSE Some(Suggestion(msg, snippets, replacements))

\* the direct spans are mapped first, then the children are walked; the first
\* panic ends the call
collect_suggestions(d) ==
    LET snippets  == context_snippets(d)
        collected == collect_children(d, 1)
    IN  IF has_panic(snippets) THEN first_panic(snippets)
        ELSE IF has_panic(collected) THEN first_panic(collected)
        ELSE suggestion_or_none(d.message, snippets, pushed(collected))

-----------------------------------------------------------------------------
(* Inputs of collect_suggestions.                                          *)

Diagnostic(msg, spans, children) ==
    [message |-> msg, spans |-> spans, children |-> children]

\* the texts of the spans of a diagnostic: none, two that parse_snippet splits,
\* and one whose highlight starts inside the leading whitespace
DiagTexts ==
    { <<>>,
      <<DiagnosticSpanLine(<<" ", "x">>, 2, 3)>>,
      <<DiagnosticSpanLine(<<"x", " ", "x">>, 1, 2)>>,
      <<DiagnosticSpanLine(<<" ", " ", "x">>, 1, 1)>> }

WithReplacement(sp, repl) == [sp EXCEPT !.suggested_replacement = repl]

\* the spans a diagnostic carries itself, and those a child carries
DirectSpans ==
    {WithReplacement(SpanOver(t), r) : t \in DiagTexts, r \in {None, Some("y")}}
ChildSpans ==
    {WithReplacement(SpanOver(t), r) :
        t \in DiagTexts, r \in {None, Some("y"), Some("z")}}

ChildMessages == {"try this", "or this"}

\* a child's own child: a note carrying a replacement of its own
Grandchild ==
    Diagnostic("nested", <<WithReplacement(SpanOver(<<ExampleLine>>), Some("w"))>>,
               <<>>)

\* The size of a diagnostic: its spans, its children, and their spans and
\* children.  A shape gives, per child, how many spans it has and whether it
\* has a child of its own.
ChildShapes(b) == [spans : 0..b, nested : BOOLEAN]

ShapeSize(shape) == 1 + shape.spans + (IF shape.nested THEN 1 ELSE 0)

RECURSIVE Shapes(_)
Shapes(b) ==
    {<<>>} \cup UNION {{<<c>> \o rest : rest \in Shapes(b - ShapeSize(c))} :
                       c \in {c \in ChildShapes(b) : ShapeSize(c) <= b}}

RECURSIVE TotalSpans(_)
TotalSpans(shapes) ==
    IF shapes = <<>> THEN 0 ELSE Head(shapes).spans + TotalSpans(Tail(shapes))

\* the children of the given shapes and messages, their spans taken in order
\* from the sequence `flat`
RECURSIVE Children(_, _, _)
Children(shapes, msgs, flat) ==
    IF shapes = <<>> THEN <<>>
    ELSE LET c == Head(shapes)
         IN  <<Diagnostic(Head(msgs), SubSeq(flat, 1, c.spans),
                          IF c.nested THEN <<Grandchild>> ELSE <<>>)>>
             \o Children(Tail(shapes), Tail(msgs),
                         SubSeq(flat, c.spans + 1, Len(flat)))

-----------------------------------------------------------------------------
(* The specification of a call of collect_suggestions.                     *)

Init ==
    /\ message = None
    /\ span = NoSpan
    /\ \E a \in 0..MaxSize :
       \E direct \in [1..a -> DirectSpans] :
       \E shapes \in Shapes(MaxSize - a) :
       \E msgs \in [1..Len(shapes) -> ChildMessages] :
       \E flat \in [1..TotalSpans(shapes) -> ChildSpans] :
          diagnostic = Diagnostic("unused variable", direct,
                                  Children(shapes, msgs, flat))
    /\ pc = "call"
    /\ indent = NoIndent
    /\ result = NoResult

CollectSuggestions ==
    /\ pc = "call"
    /\ result' = collect_suggestions(diagnostic)
    /\ pc' = "done"
    /\ UNCHANGED <<message, span, diagnostic, indent>>

Next == CollectSuggestions

Spec == Init /\ [][Next]_vars

-----------------------------------------------------------------------------
(* Vocabulary of the properties.                                           *)

Done == pc = "done"

\* the UTF-8 encoding of a string: byte k of character c is <<c, k>>
RECURSIVE Utf8(_)
Utf8(s) ==
    IF s = <<>> THEN <<>>
    ELSE [k \in 1..len_utf8(Head(s)) |-> <<Head(s), k>>] \o Utf8(Tail(s))

\* the bytes a..b-1 (0-based) of a string, as `s.as_bytes()[a..b]`
Bytes(s, a, b) == SubSeq(Utf8(s), a + 1, b)

BytesFrom(s, a) == Bytes(s, a, Len(Utf8(s)))

\* byte offset b of s lies between two characters, or at either end
OnBoundary(s, b) == \E k \in 0..Len(s) : Len(Utf8(SubSeq(s, 1, k))) = b

Returned == Done /\ result.kind = "Snippet"
Lead == result.text[1]
Body == result.text[2]
TailText == result.text[3]

\* the columns of a line record are 1-based, ordered, and at most one past the
\* end of the line
ColumnsInRange(line) ==
    /\ 1 <= line.highlight_start
    /\ line.highlight_start <= line.highlight_end
    /\ line.highlight_end <= Len(Utf8(line.text)) + 1

WellFormedSpan(sp) ==
    /\ sp.text # <<>>
    /\ \A i \in 1..Len(sp.text) : ColumnsInRange(sp.text[i])

-----------------------------------------------------------------------------
(* Properties of parse_snippet, checked under SpecSnippet.                 *)

\* C2: for a single-line span with highlight_start <= highlight_end <=
\* len(line) + 1, the snippet parse_snippet builds satisfies
\* lead + body + tail = line text from the uniform indent on.
C2_LeadBodyTailIsUnindentedLine ==
    ( /\ Returned
      /\ Len(span.text) = 1
      /\ span.text[1].highlight_start <= span.text[1].highlight_end
      /\ span.text[1].highlight_end <= Len(Utf8(span.text[1].text)) + 1 )
    => Utf8(Lead) \o Utf8(Body) \o Utf8(TailText)
           = BytesFrom(span.text[1].text, indent)

\* C2 witness: a single-line snippet with a stripped indent and a non-empty
\* lead, body and tail.
C2_Witness ==
    /\ Returned
    /\ Len(span.text) = 1
    /\ Len(span.text[1].text) <= MaxLen
    /\ indent > 0
    /\ Lead # <<>> /\ Body # <<>> /\ TailText # <<>>

\* C3: for every span with non-empty text (and in-range 1-based columns), the
\* uniform indent parse_snippet computes is at most highlight_start - 1 of the
\* first line record.
C3_IndentBelowHighlightStart ==
    (Done /\ WellFormedSpan(span))
    => indent <= span.text[1].highlight_start - 1

\* C4: for a span of N >= 2 line records, none holding a line break, the body
\* parse_snippet builds is N segments joined by single line breaks: the first
\* line from highlight_start (to its highlight_end), every interior line from
\* the uniform indent to its end, the last line from the uniform indent to
\* highlight_end - 1; the tail is the rest of the last line.
C4_Segment(i) ==
    LET n == Len(span.text)
        l == span.text[i]
    IN  IF i = 1 THEN Bytes(l.text, l.highlight_start - 1, l.highlight_end - 1)
        ELSE IF i < n THEN BytesFrom(l.text, indent)
        ELSE Bytes(l.text, indent, l.highlight_end - 1)

RECURSIVE C4_Joined(_)
C4_Joined(i) ==
    IF i = Len(span.text) THEN C4_Segment(i)
    ELSE C4_Segment(i) \o Utf8(<<"\n">>) \o C4_Joined(i + 1)

C4_LineBreaks(s) == Cardinality({k \in 1..Len(s) : s[k] = "\n"})

C4_MultiLineBody ==
    ( /\ Returned
      /\ Len(span.text) >= 2
      /\ \A i \in 1..Len(span.text) : C4_LineBreaks(span.text[i].text) = 0 )
    => /\ Utf8(Body) = C4_Joined(1)
       /\ C4_LineBreaks(Body) = Len(span.text) - 1
       /\ Utf8(TailText)
              = BytesFrom(last_line(span).text, last_line(span).highlight_end - 1)

\* C4 witness: a three-line snippet with a stripped indent whose interior
\* segment is not empty.
C4_Witness ==
    /\ Returned
    /\ Len(span.text) = 3
    /\ span.text # ExampleBlock
    /\ indent > 0
    /\ C4_Segment(2) # <<>>
    /\ C4_LineBreaks(Body) = 2

\* C7: parse_snippet on a span whose text is empty panics, whatever the other
\* fields of the span and whatever the message.
C7_EmptyTextPanics ==
    (Done /\ span.text = <<>>) => result = ExpectFailed

\* C7 witness: a call with a message on a span without text has ended.
C7_Witness ==
    /\ Done
    /\ span.text = <<>>
    /\ message # None
    /\ IsPanic(result)

\* C9: for a single-line span the three parts are slices of the one line:
\* lead = text[indent .. highlight_start-1], body = text[highlight_start-1 ..
\* highlight_end-1], tail = text[highlight_end-1 ..]; a highlight that reaches
\* the exact end of the line gives an empty tail and the call returns; the
\* example line gives ("let ", "x", " = 1;").
C9_SingleLineSlices ==
    (Done /\ Len(span.text) = 1)
    => LET l == span.text[1]
       IN  /\ Returned =>
                /\ Utf8(Lead) = Bytes(l.text, indent, l.highlight_start - 1)
                /\ Utf8(Body) = Bytes(l.text, l.highlight_start - 1,
                                      l.highlight_end - 1)
                /\ Utf8(TailText) = BytesFrom(l.text, l.highlight_end - 1)
           /\ ( /\ l.highlight_end - 1 = Len(Utf8(l.text))
                /\ indent <= l.highlight_start - 1
                /\ l.highlight_start <= l.highlight_end
                /\ OnBoundary(l.text, indent)
                /\ OnBoundary(l.text, l.highlight_start - 1) )
              => (Returned /\ TailText = <<>>)
           /\ l = ExampleLine =>
                /\ Returned
                /\ result.text = << <<"l", "e", "t", " ">>, <<"x">>,
                                    <<" ", "=", " ", "1", ";">> >>

\* C9 witness: a single-line snippet whose highlight ends at the end of the
\* line, with a stripped indent and a non-empty lead and body.
C9_Witness ==
    /\ Returned
    /\ Len(span.text) = 1
    /\ span.text[1].highlight_end - 1 = Len(Utf8(span.text[1].text))
    /\ indent > 0
    /\ Lead # <<>> /\ Body # <<>> /\ TailText = <<>>

-----------------------------------------------------------------------------
(* Properties of collect_suggestions, checked under Spec.                  *)

Suggested == Done /\ result.kind = "Some"

\* <<i, j>>: span j of child i
ChildSpan(p) == diagnostic.children[p[1]].spans[p[2]]

ChildSpanPlaces ==
    UNION {{<<i, j>> : j \in 1..Len(diagnostic.children[i].spans)} :
           i \in 1..Len(diagnostic.children)}

\* the places of the direct children's spans that carry a suggested replacement
Bearing == {p \in ChildSpanPlaces : ChildSpan(p).suggested_replacement # None}

\* child-then-span traversal order
NotAfter(p, q) == p[1] < q[1] \/ (p[1] = q[1] /\ p[2] <= q[2])

\* the position of place p among the replacement-bearing places
Rank(p) == Cardinality({q \in Bearing : NotAfter(q, p)})

\* C1: a call that returns, returns None exactly when no span of a direct
\* child carries a suggested replacement; without children it returns None
\* whatever its own spans, and with a replacement-bearing child span it returns
\* a Suggestion whose replacements are not empty.
C1_NoneIffNoReplacement ==
    (Done /\ ~IsPanic(result))
    => /\ (result = None) <=> (Bearing = {})
       /\ diagnostic.children = <<>> => result = None
       /\ Bearing # {} => (result.kind = "Some" /\ result.val.replacements # <<>>)

\* C1 witness: a diagnostic with spans of its own, one of them carrying a
\* replacement, and no children has returned None.
C1_Witness ==
    /\ Done
    /\ result = None
    /\ diagnostic.children = <<>>
    /\ \E i \in 1..Len(diagnostic.spans) :
           diagnostic.spans[i].suggested_replacement # None

\* C5: the replacements of a returned Suggestion are, in child-then-span order,
\* one per replacement-bearing span of the direct children: the snippet of that
\* span with the owning child's message as sub_message, and that span's
\* suggested replacement.
C5_ReplacementsInTraversalOrder ==
    Suggested
    => /\ Len(result.val.replacements) = Cardinality(Bearing)
       /\ \A p \in Bearing :
            LET r     == result.val.replacements[Rank(p)]
                child == diagnostic.children[p[1]]
            IN  /\ r.snippet.sub_message = Some(child.message)
                /\ r.replacement = ChildSpan(p).suggested_replacement.val
                /\ r.snippet = parse_snippet(Some(child.message), ChildSpan(p))

\* C5 witness: one child holds two different replacement-bearing spans and a
\* span without a replacement.
C5_Witness ==
    /\ Suggested
    /\ Len(result.val.replacements) = 2
    /\ result.val.replacements[1] # result.val.replacements[2]
    /\ \E i \in 1..Len(diagnostic.children) :
          /\ Len(diagnostic.children[i].spans) = 3
          /\ diagnostic.children[i].spans[2].suggested_replacement = None

AllSpans ==
    {diagnostic.spans[i] : i \in 1..Len(diagnostic.spans)}
        \cup {ChildSpan(p) : p \in ChildSpanPlaces}

\* C8: when every direct span and every span of every direct child has a
\* non-empty text and columns with 1 <= highlight_start <= highlight_end <=
\* len(text) + 1, the call returns a Suggestion or None: it never aborts.
C8_WellFormedInputNeverAborts ==
    (Done /\ \A sp \in AllSpans : WellFormedSpan(sp)) => ~IsPanic(result)

\* a child's span without text and without a suggested replacement
IsSilentEmpty(sp) == sp.text = <<>> /\ sp.suggested_replacement = None
NotSilentEmpty(sp) == ~IsSilentEmpty(sp)

\* the diagnostic without its children's silent empty spans
WithoutSilentEmpty(d) ==
    [d EXCEPT !.children =
        [i \in 1..Len(d.children) |->
            [d.children[i] EXCEPT !.spans = SelectSeq(@, NotSilentEmpty)]]]

\* C10: a direct span without text makes the call abort, also when no child
\* span carries a replacement; a child's span without text and without a
\* replacement causes no abort and leaves the result as it is without it.
C10_EmptyTextAbortsOnlyWhereParsed ==
    Done
    => /\ (\E i \in 1..Len(diagnostic.spans) : diagnostic.spans[i].text = <<>>)
            => IsPanic(result)
       /\ result = collect_suggestions(WithoutSilentEmpty(diagnostic))

\* C10 witness: a Suggestion for a diagnostic one of whose children has a span
\* without text and without a replacement.
C10_Witness ==
    /\ Suggested
    /\ \E p \in ChildSpanPlaces : IsSilentEmpty(ChildSpan(p))

====
